---------------------------- MODULE Spec2Model ----------------------------
(***************************************************************************)
(* State-machine model of the BPM playlist generator:                      *)
(*   bpm_binner.py         categorize_bpm, bin_songs, choose_song_from_bin  *)
(*   markov_model.py       bin centres, similarity kernel, normalisation,  *)
(*                         phase matrices, chain simulation                *)
(*   playlist_generator.py generate_playlist                               *)
(*                                                                         *)
(* Floating-point values are modelled exactly as extended rationals        *)
(* [n, d] with d >= 0:  d > 0 is the finite number n/d (lowest terms),     *)
(* [1,0] is +inf, [-1,0] is -inf and [0,0] is NaN, with the IEEE-754       *)
(* rules numpy applies to arrays (x/0 = +-inf, 0/0 = NaN, NaN absorbs,     *)
(* every comparison with NaN is false).  Rounding error is not modelled.   *)
(*                                                                         *)
(* The kernel exp(-d/tau) is evaluated on the grid where it is rational:   *)
(* temperatures are measured in units of 1/ln 2 (the model's tau is the    *)
(* BPM distance at which the similarity halves, tau_code * ln 2), so that   *)
(* exp(x_code) = 2^x for the model's x, and the catalogues keep every      *)
(* bin centre distance a whole multiple of the model's temperatures.       *)
(***************************************************************************)
EXTENDS Integers, Sequences, FiniteSets, TLC

VARIABLES
    df,          \* the classified catalogue: sequence of rows [id, bpm, state]
    plan,        \* per call: sequence of [phase, length]
    tau,         \* per call: temperature (a value, in units of 1/ln 2)
    pc,          \* per call: position inside generate_playlist
    centers,     \* per call: compute_bin_centers(df)
    P_base,      \* per call: base transition matrix
    P_seq,       \* per call: one phase matrix per slot
    state_path,  \* per call: simulate_chain's path (0-based state indices)
    used_ids,    \* per call: ids already put on the playlist
    playlist,    \* per call: rows selected so far
    slot,        \* per call: loop counter (plan entry / path position)
    outcome,     \* per call: "running", "returned", "ValueError", "KeyError"
    arg,         \* direct call of one function: its arguments
    ret          \* direct call of one function: [done, value], value set on return

vars == <<df, plan, tau, pc, centers, P_base, P_seq, state_path, used_ids, playlist, slot, outcome, arg, ret>>

callVars == <<plan, tau, pc, centers, P_base, P_seq, state_path, used_ids, playlist, slot, outcome>>

-----------------------------------------------------------------------------
(* Bounds of the model *)

\* catalogue size
MaxSongs == 4
\* resolution of the BPM values handed to categorize_bpm: steps of 1/BpmDen BPM
BpmDen == 1000
\* number of such steps tried on each side of every bin boundary
BpmWindow == 10
\* largest entry of the matrices handed to row_normalize
MaxEntry == 2
\* number of rows and columns of those matrices
NormDim == 2
\* resolution of the transition probabilities handed to
\* compute_expected_hitting_times: multiples of 1/HitDen
HitDen == 2

-----------------------------------------------------------------------------
(* Extended rational arithmetic (IEEE-754 special values included) *)

RECURSIVE GCD(_, _)
GCD(a, b) == IF b = 0 THEN a ELSE GCD(b, a % b)

AbsInt(a) == IF a < 0 THEN -a ELSE a

Sgn(a) == IF a > 0 THEN 1 ELSE IF a < 0 THEN -1 ELSE 0

Rat(n, d) ==
    IF d = 0 THEN [n |-> Sgn(n), d |-> 0]
    ELSE LET s == IF d < 0 THEN -1 ELSE 1
             g == GCD(AbsInt(n), AbsInt(d))
         IN  [n |-> (s * n) \div g, d |-> (s * d) \div g]

NaN == [n |-> 0, d |-> 0]

PosInf == [n |-> 1, d |-> 0]

Zero == [n |-> 0, d |-> 1]

One == [n |-> 1, d |-> 1]

IsNaN(x) == x.d = 0 /\ x.n = 0

IsFinite(x) == x.d > 0

Neg(x) == [n |-> -x.n, d |-> x.d]

AbsV(x) == [n |-> AbsInt(x.n), d |-> x.d]

Add(x, y) ==
    IF IsNaN(x) \/ IsNaN(y) THEN NaN
    ELSE IF x.d = 0 /\ y.d = 0 THEN (IF x.n = y.n THEN x ELSE NaN)
    ELSE Rat(x.n * y.d + y.n * x.d, x.d * y.d)

Sub(x, y) == Add(x, Neg(y))

Mul(x, y) == Rat(x.n * y.n, x.d * y.d)

\* 1 / y: 1/0 = +inf, 1/inf = 0, 1/NaN = NaN
Recip(y) ==
    IF y.n = 0 THEN (IF y.d > 0 THEN PosInf ELSE NaN)
    ELSE Rat(y.d * Sgn(y.n), AbsInt(y.n))

\* x / y; a zero divisor gives +-inf, or NaN for 0/0 (numpy warns, it does not raise)
Div(x, y) == Mul(x, Recip(y))

\* x < y and x <= y on floats: false as soon as one side is NaN
Less(x, y) ==
    /\ ~IsNaN(x)
    /\ ~IsNaN(y)
    /\ IF x.d = 0 /\ y.d = 0 THEN x.n < y.n ELSE x.n * y.d < y.n * x.d

Leq(x, y) == ~IsNaN(x) /\ ~IsNaN(y) /\ (x = y \/ Less(x, y))

RECURSIVE Pow2(_)
Pow2(k) == IF k = 0 THEN 1 ELSE 2 * Pow2(k - 1)

\* np.exp on the grid (see the header): exp(NaN) = NaN, exp(-inf) = 0,
\* exp(+inf) = +inf, and 2^x for a whole number x
Exp(x) ==
    IF IsNaN(x) THEN NaN
    ELSE IF x.d = 0 THEN (IF x.n > 0 THEN PosInf ELSE Zero)
    ELSE IF x.n >= 0 THEN Rat(Pow2(x.n \div x.d), 1)
    ELSE Rat(1, Pow2((-x.n) \div x.d))

-----------------------------------------------------------------------------
(* bpm_binner.py *)

None == "None"

\* BINS, in the dict's insertion order
BINS ==
    << [state |-> "warmup",       lower |-> 80,  upper |-> 110],
       [state |-> "steady_state", lower |-> 110, upper |-> 140],
       [state |-> "push_pace",    lower |-> 140, upper |-> 170],
       [state |-> "sprint",       lower |-> 170, upper |-> 1000] >>

\* the loop body's test, with the boundary put in the lower bin: lower < bpm <= upper
InBinUpperInclusive(bpm, b) == Less(Rat(b.lower, 1), bpm) /\ Leq(bpm, Rat(b.upper, 1))

\* lower <= bpm < upper
InBin(bpm, b) == Leq(Rat(b.lower, 1), bpm) /\ Less(bpm, Rat(b.upper, 1))

\* for state, (lower, upper) in BINS.items(): first match wins; None otherwise
RECURSIVE categorize_from(_, _)
categorize_from(bpm, i) ==
    IF i > Len(BINS) THEN None
    ELSE IF InBin(bpm, BINS[i]) THEN BINS[i].state
    ELSE categorize_from(bpm, i + 1)

categorize_bpm(bpm) == categorize_from(bpm, 1)

\* df["state"] = df["bpm"].apply(categorize_bpm), on a copy
bin_songs(songs) == [r \in DOMAIN songs |-> [id |-> songs[r].id, bpm |-> songs[r].bpm, state |-> categorize_bpm(songs[r].bpm)]]

\* unused = songs_df[~songs_df["id"].isin(used_ids)], as row positions
UnusedRows(songs_df, used) == {r \in DOMAIN songs_df : songs_df[r].id \notin used}

\* candidates = unused[unused["state"] == state]
CandidateRows(songs_df, state, used) == {r \in UnusedRows(songs_df, used) : songs_df[r].state = state}

\* the value standing for `return None`; a returned song is its row position (>= 1)
NoSong == 0

\* variant: the isin filter dropped, every row counts as unused
choose_ignoring_used(songs_df, state, used) ==
    LET cand == {r \in DOMAIN songs_df : songs_df[r].state = state}
    IN  IF cand # {} THEN cand
        ELSE IF DOMAIN songs_df # {} THEN DOMAIN songs_df
        ELSE {NoSong}

\* variant: no fallback to the other states
choose_without_fallback(songs_df, state, used) ==
    LET cand == CandidateRows(songs_df, state, used)
    IN  IF cand # {} THEN cand ELSE {NoSong}

\* variant: no preference for the requested state
choose_without_preference(songs_df, state, used) ==
    LET unused == UnusedRows(songs_df, used)
    IN  IF unused # {} THEN unused ELSE {NoSong}

\* choose_song_from_bin: the set of rows the call can return
\* (candidates.sample(1) and unused.sample(1) are uniform draws), or NoSong
choose_song_from_bin(songs_df, state, used) ==
    LET unused == UnusedRows(songs_df, used)
        cand   == CandidateRows(songs_df, state, used)
    IN  IF cand # {} THEN cand
        ELSE IF unused # {} THEN unused
        ELSE {NoSong}

-----------------------------------------------------------------------------
(* markov_model.py *)

STATES == << "warmup", "steady_state", "push_pace", "sprint" >>

\* state indices are 0-based, as in the code
StateIdx == 0 .. (Len(STATES) - 1)

StateName(i) == STATES[i + 1]

\* PHASE_WEIGHTS, each list indexed from 0
PHASE_WEIGHTS ==
    [ warmup       |-> [j \in StateIdx |-> << Rat(20, 10), Rat(12, 10), Rat(8, 10),  Rat(5, 10)  >>[j + 1]],
      steady_state |-> [j \in StateIdx |-> << Rat(10, 10), Rat(20, 10), Rat(10, 10), Rat(8, 10)  >>[j + 1]],
      push_pace    |-> [j \in StateIdx |-> << Rat(7, 10),  Rat(10, 10), Rat(20, 10), Rat(10, 10) >>[j + 1]],
      sprint       |-> [j \in StateIdx |-> << Rat(5, 10),  Rat(8, 10),  Rat(10, 10), Rat(25, 10) >>[j + 1]] ]

\* sum and count of the bpm column over the rows r >= i whose state is `state`
RECURSIVE BpmSum(_, _, _)
BpmSum(songs_df, state, i) ==
    IF i > Len(songs_df) THEN Zero
    ELSE IF songs_df[i].state = state THEN Add(songs_df[i].bpm, BpmSum(songs_df, state, i + 1))
    ELSE BpmSum(songs_df, state, i + 1)

BpmCount(songs_df, state) == Cardinality({r \in DOMAIN songs_df : songs_df[r].state = state})

\* df[df["state"] == state]["bpm"].mean(): NaN for a state without rows
compute_bin_centers(songs_df) == [i \in StateIdx |-> Div(BpmSum(songs_df, StateName(i), 1), Rat(BpmCount(songs_df, StateName(i)), 1))]

\* np.exp(-np.abs(centers[:, None] - centers[None, :]) / tau)
build_similarity_matrix(c, t) == [i \in DOMAIN c |-> [j \in DOMAIN c |-> Exp(Div(Neg(AbsV(Sub(c[i], c[j]))), t))]]

\* sum of a row, left to right over its 0-based columns
RECURSIVE RowSumFrom(_, _)
RowSumFrom(row, j) == IF j \notin DOMAIN row THEN Zero ELSE Add(row[j], RowSumFrom(row, j + 1))

RowSum(row) == RowSumFrom(row, 0)

\* row_sums[row_sums == 0] = 1.0; return mat / row_sums
row_normalize(mat) ==
    [i \in DOMAIN mat |->
        LET s  == RowSum(mat[i])
            s1 == IF s = Zero THEN One ELSE s
        IN  [j \in DOMAIN mat[i] |-> Div(mat[i][j], s1)]]

build_base_transition(c, t) == row_normalize(build_similarity_matrix(c, t))

\* variant: the weighted matrix returned without row_normalize
build_phase_matrix_unnormalized(P, weights) == [i \in DOMAIN P |-> [j \in DOMAIN P[i] |-> Mul(P[i][j], weights[j])]]

\* P_base * np.array(weights) broadcasts the weights over the columns of every row
build_phase_matrix(P, weights) == row_normalize([i \in DOMAIN P |-> [j \in DOMAIN P[i] |-> Mul(P[i][j], weights[j])]])

\* np.random.choice(len(P), p=row) raises ValueError unless p is a probability
\* vector: no NaN, no negative entry, sum 1 (within a tolerance in the code)
ChoiceRaises(p) ==
    \/ \E j \in DOMAIN p : IsNaN(p[j]) \/ Less(p[j], Zero)
    \/ RowSum(p) # One

\* the indices np.random.choice can return
ChoiceSupport(p) == {j \in DOMAIN p : Less(Zero, p[j])}

-----------------------------------------------------------------------------
(* Inputs *)

Calls == {1, 2}

\* one BPM per class, in class order: unclassified (below every bin), then the
\* four states at the centres 95 / 125 / 155 / 185
ClassBpm == << 60, 95, 125, 155, 185 >>

Classes == 1 .. Len(ClassBpm)

RECURSIVE CountUpTo(_, _)
CountUpTo(cnt, k) == IF k = 0 THEN 0 ELSE cnt[k] + CountUpTo(cnt, k - 1)

\* the class of row r when the rows are laid out class by class
ClassOfRow(cnt, r) == CHOOSE k \in Classes : CountUpTo(cnt, k - 1) < r /\ r <= CountUpTo(cnt, k)

\* the raw song table with cnt[k] songs of class k; ids are the row numbers,
\* except that with dup the last row repeats the id of the first
RawSongs(cnt, dup) ==
    LET n == CountUpTo(cnt, Len(ClassBpm))
    IN  [r \in 1 .. n |-> [id  |-> IF dup /\ r = n THEN 1 ELSE r, bpm |-> Rat(ClassBpm[ClassOfRow(cnt, r)], 1)]]

\* the binned catalogues of at most MaxSongs songs, any number of them per
\* class (one BPM per class), with unique ids or with one id carried by two rows;
\* the order of the rows and the naming of the ids do not matter to the code
Catalogs ==
    { bin_songs(RawSongs(cnt, dup)) :
        cnt \in {c \in [Classes -> 0 .. MaxSongs] : CountUpTo(c, Len(ClassBpm)) <= MaxSongs},
        dup \in BOOLEAN }

Entry(p, l) == [phase |-> p, length |-> l]

\* workout plans: the empty plan, short plans, the 4-slot plan of three phases,
\* the first five slots of WORKOUTS["hiit_intervals"], and a plan naming a
\* phase that PHASE_WEIGHTS does not have
Plans ==
    { << >>,
      << Entry("sprint", 1) >>,
      << Entry("push_pace", 1), Entry("warmup", 1) >>,
      << Entry("warmup", 1), Entry("steady_state", 2), Entry("sprint", 1) >>,
      << Entry("warmup", 2), Entry("push_pace", 2), Entry("steady_state", 1) >>,
      << Entry("warmup", 1), Entry("cooldown", 1) >> }

\* temperatures, in units of 1/ln 2
Taus == { Rat(-30, 1), Zero, Rat(30, 1) }

TotalSlots(pl) == IF pl = << >> THEN 0 ELSE CountUpTo([i \in DOMAIN pl |-> pl[i].length], Len(pl))

-----------------------------------------------------------------------------
(* playlist_generator.py: generate_playlist, one call c *)

NoMatrix == << >>

\* centers = compute_bin_centers(df); P_base = build_base_transition(centers, tau=tau)
BuildBase(c) ==
    /\ pc[c] = "start"
    /\ centers' = [centers EXCEPT ![c] = compute_bin_centers(df)]
    /\ P_base' = [P_base EXCEPT ![c] = build_base_transition(compute_bin_centers(df), tau[c])]
    /\ P_seq' = [P_seq EXCEPT ![c] = << >>]
    /\ slot' = [slot EXCEPT ![c] = 0]
    /\ pc' = [pc EXCEPT ![c] = "phases"]
    /\ UNCHANGED <<df, plan, tau, state_path, used_ids, playlist, outcome, arg, ret>>

\* variant: P_seq.append(P_phase), the matrix used once whatever the length
RepeatOnce(x, k) == <<x>>

RECURSIVE Repeat(_, _)
Repeat(x, k) == IF k <= 0 THEN << >> ELSE <<x>> \o Repeat(x, k - 1)

\* one iteration of `for phase, length in plan`: PHASE_WEIGHTS[phase] raises
\* KeyError for an unknown phase; otherwise the phase matrix is appended length times
AppendPhase(c) ==
    /\ pc[c] = "phases"
    /\ slot[c] < Len(plan[c])
    /\ LET e == plan[c][slot[c] + 1]
       IN  IF e.phase \notin DOMAIN PHASE_WEIGHTS
           THEN /\ pc' = [pc EXCEPT ![c] = "raised"]
                /\ outcome' = [outcome EXCEPT ![c] = "KeyError"]
                /\ UNCHANGED <<P_seq, slot>>
           ELSE /\ P_seq' = [P_seq EXCEPT ![c] = @ \o Repeat(build_phase_matrix(P_base[c], PHASE_WEIGHTS[e.phase]), e.length)]
                /\ slot' = [slot EXCEPT ![c] = @ + 1]
                /\ UNCHANGED <<pc, outcome>>
    /\ UNCHANGED <<df, plan, tau, centers, P_base, state_path, used_ids, playlist, arg, ret>>

\* simulate_chain(P_seq, x0=0): state = x0; path = [state]
SimulateStart(c) ==
    /\ pc[c] = "phases"
    /\ slot[c] = Len(plan[c])
    /\ state_path' = [state_path EXCEPT ![c] = << 0 >>]
    /\ pc' = [pc EXCEPT ![c] = "simulate"]
    /\ UNCHANGED <<df, plan, tau, centers, P_base, P_seq, used_ids, playlist, slot, outcome, arg, ret>>

\* one iteration of `for P in P_seq`: state = np.random.choice(len(P), p=P[state])
SimulateStep(c) ==
    /\ pc[c] = "simulate"
    /\ Len(state_path[c]) <= Len(P_seq[c])
    /\ LET P == P_seq[c][Len(state_path[c])]
           p == P[state_path[c][Len(state_path[c])]]
       IN  IF ChoiceRaises(p)
           THEN /\ pc' = [pc EXCEPT ![c] = "raised"]
                /\ outcome' = [outcome EXCEPT ![c] = "ValueError"]
                /\ UNCHANGED state_path
           ELSE /\ \E j \in ChoiceSupport(p) : state_path' = [state_path EXCEPT ![c] = Append(@, j)]
                /\ UNCHANGED <<pc, outcome>>
    /\ UNCHANGED <<df, plan, tau, centers, P_base, P_seq, used_ids, playlist, slot, arg, ret>>

\* simulate_chain returns; used_ids = set(); playlist = []
SelectStart(c) ==
    /\ pc[c] = "simulate"
    /\ Len(state_path[c]) = Len(P_seq[c]) + 1
    /\ used_ids' = [used_ids EXCEPT ![c] = {}]
    /\ playlist' = [playlist EXCEPT ![c] = << >>]
    /\ slot' = [slot EXCEPT ![c] = 1]
    /\ pc' = [pc EXCEPT ![c] = "select"]
    /\ UNCHANGED <<df, plan, tau, centers, P_base, P_seq, state_path, outcome, arg, ret>>

\* variant: used_ids kept at module level, one set shared by every call
SelectStepSharedUsed(c) ==
    /\ pc[c] = "select"
    /\ slot[c] < Len(state_path[c])
    /\ \E song \in choose_song_from_bin(df, StateName(state_path[c][slot[c] + 1]), UNION {used_ids[d] : d \in Calls}) :
          IF song # NoSong
          THEN /\ used_ids' = [used_ids EXCEPT ![c] = @ \cup {df[song].id}]
               /\ playlist' = [playlist EXCEPT ![c] = Append(@, df[song])]
          ELSE UNCHANGED <<used_ids, playlist>>
    /\ slot' = [slot EXCEPT ![c] = @ + 1]
    /\ UNCHANGED <<df, plan, tau, pc, centers, P_base, P_seq, state_path, outcome, arg, ret>>

\* one iteration of `for state_idx in state_path[1:]`; slot is the 0-based
\* position in state_path
SelectStep(c) ==
    /\ pc[c] = "select"
    /\ slot[c] < Len(state_path[c])
    /\ \E song \in choose_song_from_bin(df, StateName(state_path[c][slot[c] + 1]), used_ids[c]) :
          IF song # NoSong
          THEN /\ used_ids' = [used_ids EXCEPT ![c] = @ \cup {df[song].id}]
               /\ playlist' = [playlist EXCEPT ![c] = Append(@, df[song])]
          ELSE UNCHANGED <<used_ids, playlist>>
    /\ slot' = [slot EXCEPT ![c] = @ + 1]
    /\ UNCHANGED <<df, plan, tau, pc, centers, P_base, P_seq, state_path, outcome, arg, ret>>

\* return playlist
Return(c) ==
    /\ pc[c] = "select"
    /\ slot[c] = Len(state_path[c])
    /\ pc' = [pc EXCEPT ![c] = "returned"]
    /\ outcome' = [outcome EXCEPT ![c] = "returned"]
    /\ UNCHANGED <<df, plan, tau, centers, P_base, P_seq, state_path, used_ids, playlist, slot, arg, ret>>

\* one generate_playlist call (call 1) on any catalogue, plan and temperature
Init ==
    /\ df \in Catalogs
    /\ plan \in [Calls -> Plans]
    /\ plan[2] = << >>
    /\ tau \in [Calls -> Taus]
    /\ tau[2] = Zero
    /\ pc = [c \in Calls |-> IF c = 1 THEN "start" ELSE "idle"]
    /\ centers = [c \in Calls |-> << >>]
    /\ P_base = [c \in Calls |-> NoMatrix]
    /\ P_seq = [c \in Calls |-> << >>]
    /\ state_path = [c \in Calls |-> << >>]
    /\ used_ids = [c \in Calls |-> {}]
    /\ playlist = [c \in Calls |-> << >>]
    /\ slot = [c \in Calls |-> 0]
    /\ outcome = [c \in Calls |-> "running"]
    /\ arg = "none"
    /\ ret = "none"

Next ==
    \E c \in Calls :
        \/ BuildBase(c)
        \/ AppendPhase(c)
        \/ SimulateStart(c)
        \/ SimulateStep(c)
        \/ SelectStart(c)
        \/ SelectStep(c)
        \/ Return(c)

Spec == Init /\ [][Next]_vars

\* two generate_playlist calls over one catalogue in which every state has a
\* song, each with its own plan, their statements interleaved in any order
TwoCallPlans ==
    { << Entry("sprint", 1) >>,
      << Entry("push_pace", 1), Entry("warmup", 1) >>,
      << Entry("warmup", 1), Entry("cooldown", 1) >> }

InitTwo ==
    /\ df \in {d \in Catalogs : \A i \in DOMAIN STATES : \E r \in DOMAIN d : d[r].state = STATES[i]}
    /\ plan \in [Calls -> TwoCallPlans]
    /\ tau = [c \in Calls |-> Rat(30, 1)]
    /\ pc = [c \in Calls |-> "start"]
    /\ centers = [c \in Calls |-> << >>]
    /\ P_base = [c \in Calls |-> NoMatrix]
    /\ P_seq = [c \in Calls |-> << >>]
    /\ state_path = [c \in Calls |-> << >>]
    /\ used_ids = [c \in Calls |-> {}]
    /\ playlist = [c \in Calls |-> << >>]
    /\ slot = [c \in Calls |-> 0]
    /\ outcome = [c \in Calls |-> "running"]
    /\ arg = "none"
    /\ ret = "none"

SpecTwo == InitTwo /\ [][Next]_vars

\* one generate_playlist call on a catalogue of one song per state, under a
\* plan shorter than the catalogue or the first six slots of
\* WORKOUTS["beginner_30min"], two more than the catalogue has songs
FillPlans ==
    { << Entry("push_pace", 1), Entry("warmup", 1) >>,
      << Entry("warmup", 3), Entry("steady_state", 3) >> }

InitFill ==
    /\ df \in {d \in Catalogs :
                /\ Len(d) = Len(STATES)
                /\ \A i \in DOMAIN STATES : \E r \in DOMAIN d : d[r].state = STATES[i]
                /\ \A r, q \in DOMAIN d : r # q => d[r].id # d[q].id}
    /\ plan \in {[c \in Calls |-> IF c = 1 THEN p ELSE << >>] : p \in FillPlans}
    /\ tau = [c \in Calls |-> IF c = 1 THEN Rat(30, 1) ELSE Zero]
    /\ pc = [c \in Calls |-> IF c = 1 THEN "start" ELSE "idle"]
    /\ centers = [c \in Calls |-> << >>]
    /\ P_base = [c \in Calls |-> NoMatrix]
    /\ P_seq = [c \in Calls |-> << >>]
    /\ state_path = [c \in Calls |-> << >>]
    /\ used_ids = [c \in Calls |-> {}]
    /\ playlist = [c \in Calls |-> << >>]
    /\ slot = [c \in Calls |-> 0]
    /\ outcome = [c \in Calls |-> "running"]
    /\ arg = "none"
    /\ ret = "none"

SpecFill == InitFill /\ [][Next]_vars

-----------------------------------------------------------------------------
(* Direct calls of the pure functions, on inputs drawn from bounded sets *)

NoCalls ==
    /\ plan = [c \in Calls |-> << >>]
    /\ tau = [c \in Calls |-> Zero]
    /\ pc = [c \in Calls |-> "idle"]
    /\ centers = [c \in Calls |-> << >>]
    /\ P_base = [c \in Calls |-> NoMatrix]
    /\ P_seq = [c \in Calls |-> << >>]
    /\ state_path = [c \in Calls |-> << >>]
    /\ used_ids = [c \in Calls |-> {}]
    /\ playlist = [c \in Calls |-> << >>]
    /\ slot = [c \in Calls |-> 0]
    /\ outcome = [c \in Calls |-> "running"]

\* the bin boundaries, 0 and the values within BpmWindow steps of them, plus
\* NaN and the infinities
BpmInputs ==
    { Rat(b * BpmDen + k, BpmDen) : b \in {0, 80, 110, 140, 170, 1000}, k \in (-BpmWindow) .. BpmWindow }
        \cup { NaN, PosInf, Neg(PosInf) }

InitBinner ==
    /\ NoCalls
    /\ df = << >>
    /\ arg \in BpmInputs
    /\ ret = [done |-> FALSE, value |-> None]

\* categorize_bpm(arg)
Categorize ==
    /\ ~ret.done
    /\ ret' = [done |-> TRUE, value |-> categorize_bpm(arg)]
    /\ UNCHANGED <<df, arg, callVars>>

SpecBinner == InitBinner /\ [][Categorize]_vars

InitSelector ==
    /\ NoCalls
    /\ df \in Catalogs
    /\ arg \in [state : {STATES[i] : i \in DOMAIN STATES}, used_ids : SUBSET (1 .. MaxSongs)]
    /\ ret = [done |-> FALSE, value |-> NoSong]

\* choose_song_from_bin(df, arg.state, arg.used_ids)
Choose ==
    /\ ~ret.done
    /\ \E song \in choose_song_from_bin(df, arg.state, arg.used_ids) : ret' = [done |-> TRUE, value |-> song]
    /\ UNCHANGED <<df, arg, callVars>>

SpecSelector == InitSelector /\ [][Choose]_vars

\* square matrices of whole, non-negative entries
NormInputs == [0 .. (NormDim - 1) -> [0 .. (NormDim - 1) -> {Rat(k, 1) : k \in 0 .. MaxEntry}]]

InitNormalize ==
    /\ NoCalls
    /\ df = << >>
    /\ arg \in NormInputs
    /\ ret = [done |-> FALSE, value |-> NoMatrix]

\* row_normalize(arg)
Normalize ==
    /\ ~ret.done
    /\ ret' = [done |-> TRUE, value |-> row_normalize(arg)]
    /\ UNCHANGED <<df, arg, callVars>>

SpecNormalize == InitNormalize /\ [][Normalize]_vars

-----------------------------------------------------------------------------
(* evaluate.py: expected hitting times. P and h are indexed from 0 like the
   arrays; the sub-system is held as tuples, row k and column k (from 1)
   standing for index k - 1 of the arrays *)

\* the tuple <<f[1], ..., f[m]>>
RECURSIVE TupleOf(_, _)
TupleOf(f, m) == IF m = 0 THEN << >> ELSE Append(TupleOf(f, m - 1), f[m])

\* non_target = [i for i in range(n) if i != target_state_idx]
non_target(n, t) == TupleOf([k \in 1 .. (n - 1) |-> IF k - 1 < t THEN k - 1 ELSE k], n - 1)

\* P[np.ix_(non_target, non_target)]
P_sub(P, nt) == TupleOf([i \in DOMAIN nt |-> TupleOf([j \in DOMAIN nt |-> P[nt[i]][nt[j]]], Len(nt))], Len(nt))

np_eye(m) == TupleOf([i \in 1 .. m |-> TupleOf([j \in 1 .. m |-> IF i = j THEN One ELSE Zero], m)], m)

np_ones(m) == TupleOf([i \in 1 .. m |-> One], m)

MatSub(X, Y) == TupleOf([i \in DOMAIN X |-> TupleOf([j \in DOMAIN X[i] |-> Sub(X[i][j], Y[i][j])], Len(X[i]))], Len(X))

Transpose(X) == TupleOf([j \in DOMAIN X |-> TupleOf([i \in DOMAIN X |-> X[i][j]], Len(X))], Len(X))

RECURSIVE DotFrom(_, _, _)
DotFrom(u, v, k) == IF k \notin DOMAIN u THEN Zero ELSE Add(Mul(u[k], v[k]), DotFrom(u, v, k + 1))

Dot(u, v) == DotFrom(u, v, 1)

MatVec(X, v) == TupleOf([i \in DOMAIN X |-> Dot(X[i], v)], Len(X))

MatMul(X, Y) == LET Yt == Transpose(Y) IN TupleOf([i \in DOMAIN X |-> TupleOf([j \in DOMAIN Y |-> Dot(X[i], Yt[j])], Len(Y))], Len(X))

\* the system A x = b as one matrix, b in the last column
Augmented(A, b) == TupleOf([i \in DOMAIN A |-> Append(A[i], b[i])], Len(A))

\* partial pivoting: the first row, from `row` down, of largest magnitude in the column
PivotRow(M, col, row) ==
    LET cand == {r \in DOMAIN M : r >= row /\ M[r][col] # Zero}
    IN  CHOOSE r \in cand :
            \A q \in cand :
                \/ Less(AbsV(M[q][col]), AbsV(M[r][col]))
                \/ (AbsV(M[q][col]) = AbsV(M[r][col]) /\ r <= q)

\* elimination with row exchanges, column by column; piv lists the columns
\* that got a pivot, the k-th of them in row k
RECURSIVE Eliminate(_, _, _, _)
Eliminate(M, col, row, piv) ==
    IF col > Len(M) \/ row > Len(M) THEN [M |-> M, piv |-> piv]
    ELSE IF \A r \in DOMAIN M : r >= row => M[r][col] = Zero
         THEN Eliminate(M, col + 1, row, piv)
         ELSE LET r  == PivotRow(M, col, row)
                  Sw == [M EXCEPT ![row] = M[r], ![r] = M[row]]
                  pr == TupleOf([j \in DOMAIN Sw[row] |-> Div(Sw[row][j], Sw[row][col])], Len(Sw[row]))
                  El == TupleOf([i \in DOMAIN Sw |->
                                    IF i = row THEN pr
                                    ELSE TupleOf([j \in DOMAIN Sw[i] |-> Sub(Sw[i][j], Mul(Sw[i][col], pr[j]))], Len(Sw[i]))],
                                Len(Sw))
              IN  Eliminate(El, col + 1, row + 1, Append(piv, col))

\* the solution read off the eliminated system, the unknowns without a pivot at 0
ReadSolution(e) ==
    TupleOf([j \in DOMAIN e.M |->
                IF \E k \in DOMAIN e.piv : e.piv[k] = j
                THEN e.M[CHOOSE k \in DOMAIN e.piv : e.piv[k] = j][Len(e.M) + 1]
                ELSE Zero],
            Len(e.M))

\* np.linalg.solve(A, b): LinAlgError when a column has no pivot left
linalg_solve(A, b) ==
    LET e == Eliminate(Augmented(A, b), 1, 1, << >>)
    IN  IF Len(e.piv) < Len(A)
        THEN [raised |-> TRUE, x |-> << >>]
        ELSE [raised |-> FALSE, x |-> ReadSolution(e)]

\* np.linalg.lstsq(A, b, rcond=None)[0]: the least-squares solution of
\* smallest norm, x = A^T y for any y with A^T A A^T y = A^T b
linalg_lstsq(A, b) ==
    LET At == Transpose(A)
        e  == Eliminate(Augmented(MatMul(At, MatMul(A, At)), MatVec(At, b)), 1, 1, << >>)
    IN  MatVec(At, ReadSolution(e))

\* variant: h[i] = h_sub[i], the entries placed by their position in h_sub
place_by_position(h_sub, nt, n) == [s \in 0 .. (n - 1) |-> IF s + 1 \in DOMAIN h_sub THEN h_sub[s + 1] ELSE Zero]

\* h = np.zeros(n); for i, state_idx in enumerate(non_target): h[state_idx] = h_sub[i]
place(h_sub, nt, n) ==
    [s \in 0 .. (n - 1) |->
        IF \E i \in DOMAIN nt : nt[i] = s THEN h_sub[CHOOSE i \in DOMAIN nt : nt[i] = s] ELSE Zero]

compute_expected_hitting_times(P, target_state_idx) ==
    LET n      == Cardinality(DOMAIN P)
        nt     == non_target(n, target_state_idx)
        A      == MatSub(np_eye(n - 1), P_sub(P, nt))
        b      == np_ones(n - 1)
        solved == linalg_solve(A, b)
        h_sub  == IF solved.raised THEN linalg_lstsq(A, b) ELSE solved.x
    IN  place(h_sub, nt, n)

\* rows of a transition matrix over STATES: they sum to 1, with at most two
\* non-zero entries, each a multiple of 1/HitDen
HitRows ==
    { [j \in StateIdx |-> IF a = b THEN (IF j = a THEN One ELSE Zero) ELSE IF j = a THEN Rat(k, HitDen) ELSE IF j = b THEN Rat(HitDen - k, HitDen) ELSE Zero] :
        a \in StateIdx, b \in StateIdx, k \in 0 .. HitDen }

\* direct calls of compute_expected_hitting_times: any target state and any
\* such rows for the other states; the row of the target, which the function
\* does not read, is the absorbing one
HitInputs ==
    { [P |-> [i \in StateIdx |-> IF i = t THEN [j \in StateIdx |-> IF j = t THEN One ELSE Zero] ELSE rows[i]], target_state_idx |-> t] :
        rows \in [StateIdx -> HitRows], t \in StateIdx }

InitHitting ==
    /\ NoCalls
    /\ df = << >>
    /\ arg \in HitInputs
    /\ ret = [done |-> FALSE, value |-> NoMatrix]

\* compute_expected_hitting_times(P, target_state_idx)
Hitting ==
    /\ ~ret.done
    /\ ret' = [done |-> TRUE, value |-> compute_expected_hitting_times(arg.P, arg.target_state_idx)]
    /\ UNCHANGED <<df, arg, callVars>>

SpecHitting == InitHitting /\ [][Hitting]_vars

-----------------------------------------------------------------------------
(* Properties *)

Started(c) == pc[c] \notin {"idle", "start"}

Raised(c) == outcome[c] \in {"ValueError", "KeyError"}

Ids(pl) == {pl[i].id : i \in DOMAIN pl}

StatesOf(songs_df) == {songs_df[r].state : r \in DOMAIN songs_df}

AllStatesPresent(songs_df) == \A i \in DOMAIN STATES : STATES[i] \in StatesOf(songs_df)

\* every phase of the plan has weights
KnownPhases(c) == \A i \in DOMAIN plan[c] : plan[c][i].phase \in DOMAIN PHASE_WEIGHTS

\* a valid configuration: tau > 0 and every phase of the plan has weights
ValidConfig(c) ==
    /\ Less(Zero, tau[c])
    /\ KnownPhases(c)

\* C1: within one generate_playlist call no song id appears twice in the
\* playlist: the ids of the playlist are pairwise distinct, used_ids holds
\* exactly the ids already on the playlist when the next slot is filled, and
\* choose_song_from_bin cannot return a song whose id is in used_ids.
C1_NoRepeatedId ==
    \A c \in Calls :
        /\ \A i, j \in DOMAIN playlist[c] : i # j => playlist[c][i].id # playlist[c][j].id
        /\ used_ids[c] = Ids(playlist[c])
        /\ (pc[c] = "select" /\ slot[c] < Len(state_path[c])) =>
              \A song \in choose_song_from_bin(df, StateName(state_path[c][slot[c] + 1]), used_ids[c]) :
                  song # NoSong => df[song].id \notin used_ids[c]

\* a call has returned three songs or more from a catalogue in which two rows
\* carry the same id
C1_Witness ==
    /\ outcome[1] = "returned"
    /\ Len(playlist[1]) >= 3
    /\ \E r1, r2 \in DOMAIN df : r1 # r2 /\ df[r1].id = df[r2].id

\* the row np.random.choice draws from at the next step of simulate_chain
NextRow(c) == P_seq[c][Len(state_path[c])][state_path[c][Len(state_path[c])]]

\* C2: with fewer songs than planned slots, every state classified at least
\* once and a valid configuration, generate_playlist raises nothing (every
\* draw of the simulation is from a probability vector), and returns a
\* playlist strictly shorter than the total slot count, one song at most per
\* slot filled so far (unfilled slots are skipped).
C2_Exhaustion ==
    \A c \in Calls :
        (Len(df) < TotalSlots(plan[c]) /\ AllStatesPresent(df) /\ ValidConfig(c) /\ pc[c] # "idle") =>
            /\ ~Raised(c)
            /\ (pc[c] = "simulate" /\ Len(state_path[c]) <= Len(P_seq[c])) =>
                  ~ChoiceRaises(NextRow(c)) /\ ChoiceSupport(NextRow(c)) # {}
            /\ pc[c] = "select" => Len(playlist[c]) <= slot[c] - 1
            /\ pc[c] = "returned" => Len(playlist[c]) < TotalSlots(plan[c])

\* the call returned after skipping a slot: four songs for five slots
C2_Witness ==
    /\ outcome[1] = "returned"
    /\ AllStatesPresent(df)
    /\ ValidConfig(1)
    /\ Len(df) < TotalSlots(plan[1])
    /\ Len(playlist[1]) = Len(df)
    /\ Len(playlist[1]) = TotalSlots(plan[1]) - 1

\* the rows of df whose id is not in arg.used_ids, and those of the requested state
ArgUnused == {r \in DOMAIN df : df[r].id \notin arg.used_ids}

ArgMatching == {r \in ArgUnused : df[r].state = arg.state}

\* C3: fallback law of choose_song_from_bin: when no unused song has the requested
\* state but some unused song exists, the call returns an unused song, not
\* None; it returns None only when every song's id is in used_ids.
C3_Fallback ==
    ret.done =>
        /\ (ArgMatching = {} /\ ArgUnused # {}) => ret.value \in ArgUnused
        /\ ret.value = NoSong => \A r \in DOMAIN df : df[r].id \in arg.used_ids
        /\ ret.value # NoSong => ret.value \in ArgUnused

\* the fallback returned an unclassified song while a used song of the
\* requested state exists
C3_Witness ==
    /\ ret.done
    /\ ArgMatching = {}
    /\ ret.value # NoSong
    /\ df[ret.value].state = None
    /\ \E r \in DOMAIN df : df[r].state = arg.state /\ df[r].id \in arg.used_ids

\* C4: preference of choose_song_from_bin: when an unused song of the requested
\* state exists, the returned song is unused and of that state, and every such
\* song can be returned; a song of another state (or unclassified) is returned
\* only when no unused song of the requested state exists.
C4_Preference ==
    /\ ret.done =>
          /\ ArgMatching # {} => ret.value \in ArgMatching
          /\ (ret.value # NoSong /\ df[ret.value].state # arg.state) => ArgMatching = {}
    /\ ArgMatching # {} => \A r \in ArgMatching : r \in choose_song_from_bin(df, arg.state, arg.used_ids)

\* a song of the requested state was returned although unused songs of other
\* states, a second unused song of that state and a used one were there
C4_Witness ==
    /\ ret.done
    /\ Cardinality(ArgMatching) >= 2
    /\ ArgUnused # ArgMatching
    /\ arg.used_ids \cap {df[r].id : r \in DOMAIN df} # {}
    /\ ret.value \in ArgMatching

\* the state whose interval [lower, upper) holds the finite value n/d
StateOfRatio(n, d) ==
    IF 80 * d <= n /\ n < 110 * d THEN "warmup"
    ELSE IF 110 * d <= n /\ n < 140 * d THEN "steady_state"
    ELSE IF 140 * d <= n /\ n < 170 * d THEN "push_pace"
    ELSE IF 170 * d <= n /\ n < 1000 * d THEN "sprint"
    ELSE None

\* C5: categorize_bpm returns the state whose half-open interval [lower, upper)
\* contains the BPM: a boundary belongs to the upper range (80 -> warmup,
\* 110 -> steady_state, 140 -> push_pace, 170 -> sprint), a BPM just below 110
\* is warmup, and a BPM below 80, negative or matching no range (1000 and
\* above, NaN) is None, never a default state.
C5_BoundaryLaw ==
    ret.done =>
        /\ IsFinite(arg) => ret.value = StateOfRatio(arg.n, arg.d)
        /\ ~IsFinite(arg) => ret.value = None
        /\ arg = Rat(80, 1) => ret.value = "warmup"
        /\ arg = Rat(110, 1) => ret.value = "steady_state"
        /\ arg = Rat(140, 1) => ret.value = "push_pace"
        /\ arg = Rat(170, 1) => ret.value = "sprint"
        /\ arg = Rat(110 * BpmDen - 1, BpmDen) => ret.value = "warmup"
        /\ Less(arg, Rat(80, 1)) => ret.value = None

\* exactly 110 BPM was classified, as steady_state
C5_Witness ==
    /\ ret.done
    /\ arg = Rat(110, 1)
    /\ ret.value = "steady_state"

\* C6: a temperature tau <= 0 is rejected at matrix-construction time: a call
\* with tau <= 0 (on a catalogue with songs in every state and a non-empty
\* plan of known phases) ends in an error and never produces a transition
\* matrix, a state path or a playlist.
C6_NonPositiveTauRejected ==
    \A c \in Calls :
        (pc[c] # "idle" /\ ~Less(Zero, tau[c]) /\ AllStatesPresent(df) /\ plan[c] # << >> /\ KnownPhases(c)) =>
            /\ pc[c] \in {"start", "raised"}
            /\ P_base[c] = NoMatrix
            /\ state_path[c] = << >>
            /\ outcome[c] # "returned"

\* C7: generate_playlist with an empty plan (tau > 0, songs in every state)
\* fails fast at matrix-construction time: it does not run the simulation and
\* does not return a playlist, an empty one included.
C7_EmptyPlanRejected ==
    \A c \in Calls :
        (pc[c] # "idle" /\ plan[c] = << >> /\ Less(Zero, tau[c]) /\ AllStatesPresent(df)) =>
            /\ pc[c] \notin {"simulate", "select", "returned"}
            /\ outcome[c] # "returned"

\* C8: row_normalize returns a row-stochastic matrix for a non-negative input:
\* a row with a non-zero sum is divided by its sum, a row whose sum is zero
\* becomes the uniform row (each entry 1/N), and every output row sums to 1.
C8_RowStochastic ==
    ret.done =>
        \A i \in DOMAIN arg :
            /\ RowSum(ret.value[i]) = One
            /\ RowSum(arg[i]) # Zero => \A j \in DOMAIN arg[i] : ret.value[i][j] = Div(arg[i][j], RowSum(arg[i]))
            /\ RowSum(arg[i]) = Zero => \A j \in DOMAIN arg[i] : ret.value[i][j] = Rat(1, Cardinality(DOMAIN arg[i]))

HasNaN(P) == \E i \in DOMAIN P : \E j \in DOMAIN P[i] : IsNaN(P[i][j])

\* C9: when a state has no classified songs (and another one has) its centre
\* is the NaN sentinel and the similarity involving it counts as 0: no entry
\* of the base matrix or of a phase matrix is NaN, and the rows of the states
\* that have songs are probability distributions.
C9_SentinelGuarded ==
    \A c \in Calls :
        (Started(c) /\ Less(Zero, tau[c]) /\ ~AllStatesPresent(df) /\ StatesOf(df) \ {None} # {}) =>
            /\ \A i \in StateIdx : StateName(i) \notin StatesOf(df) => IsNaN(centers[c][i])
            /\ ~HasNaN(P_base[c])
            /\ \A k \in DOMAIN P_seq[c] : ~HasNaN(P_seq[c][k])
            /\ \A i \in StateIdx : StateName(i) \in StatesOf(df) => ~ChoiceRaises(P_base[c][i])

\* C10: data sparsity never surfaces as an exception: for a non-empty valid
\* plan and tau > 0, a non-empty catalogue with no song in some state (or an
\* exhausted one) still gets its full state path simulated and a playlist
\* returned.
C10_SparsityNeverRaises ==
    \A c \in Calls :
        (pc[c] # "idle" /\ plan[c] # << >> /\ ValidConfig(c) /\ df # << >>) =>
            /\ ~Raised(c)
            /\ pc[c] \in {"select", "returned"} => Len(state_path[c]) = TotalSlots(plan[c]) + 1

\* the plan entry that covers slot k (k = 1 .. total), counting the slots in plan order
EntryOfSlot(pl, k) == CHOOSE i \in DOMAIN pl : CountUpTo([e \in DOMAIN pl |-> pl[e].length], i - 1) < k /\ k <= CountUpTo([e \in DOMAIN pl |-> pl[e].length], i)

\* C11: the simulated state path starts at state index 0 (warmup), has length
\* (sum of slot counts) + 1 once simulate_chain has returned, and its k-th
\* transition is a draw from the current state's row of the phase matrix of
\* the plan entry covering slot k: P_seq holds, in plan order, each entry's
\* phase matrix for exactly slot_count consecutive steps.
C11_PathFollowsPlan ==
    \A c \in Calls :
        /\ pc[c] \in {"simulate", "select", "returned"} =>
              /\ Len(P_seq[c]) = TotalSlots(plan[c])
              /\ Len(state_path[c]) >= 1
              /\ Len(state_path[c]) <= TotalSlots(plan[c]) + 1
              /\ state_path[c][1] = 0
              /\ StateName(state_path[c][1]) = "warmup"
              /\ \A k \in 1 .. Len(state_path[c]) - 1 :
                    Less(Zero, P_seq[c][k][state_path[c][k]][state_path[c][k + 1]])
        /\ pc[c] = "simulate" =>
              \A i \in DOMAIN plan[c] :
                  LET Pi == build_phase_matrix(P_base[c], PHASE_WEIGHTS[plan[c][i].phase])
                  IN  \A k \in 1 .. TotalSlots(plan[c]) : EntryOfSlot(plan[c], k) = i => P_seq[c][k] = Pi
        /\ pc[c] \in {"select", "returned"} => Len(state_path[c]) = TotalSlots(plan[c]) + 1

\* a call has returned after a path of five draws over a plan of three
\* phases, and the path left the start state
C11_Witness ==
    /\ outcome[1] = "returned"
    /\ Len(plan[1]) = 3
    /\ Len(state_path[1]) = 6
    /\ \E k \in DOMAIN state_path[1] : state_path[1][k] # 0
    /\ P_seq[1][2] # P_seq[1][3]

\* the slots a call's selection loop has gone through
SlotsDone(c) == IF pc[c] \in {"select", "returned"} THEN slot[c] - 1 ELSE 0

Min(a, b) == IF a <= b THEN a ELSE b

\* what a call holds, stated with that call's variables only: a duplicate-free
\* playlist whose ids are the call's used ids, one song for every slot gone
\* through while the catalogue still had an id the call had not used, and for
\* every slot the requested state unless the call itself had used every song
\* of that state
CallIsolated(c) ==
    /\ \A i, j \in DOMAIN playlist[c] : i # j => playlist[c][i].id # playlist[c][j].id
    /\ used_ids[c] = Ids(playlist[c])
    /\ Len(playlist[c]) = Min(SlotsDone(c), Cardinality(Ids(df)))
    /\ \A k \in DOMAIN playlist[c] :
          \/ playlist[c][k].state = StateName(state_path[c][k + 1])
          \/ \A r \in DOMAIN df :
                df[r].state = StateName(state_path[c][k + 1]) =>
                    df[r].id \in {playlist[c][j].id : j \in 1 .. k - 1}

\* C12: in every interleaving of two generate_playlist calls over one
\* classified catalogue, each call enters its selection loop with its own
\* empty used-id set, a step of one call leaves the other call's used ids and
\* playlist alone, a song one call picked stays selectable by the other (each
\* call fills its slots and gets the requested state as if it ran alone),
\* each playlist is free of duplicates, and no step changes the catalogue.
C12_CallsIsolated ==
    /\ \A c \in Calls : CallIsolated(c)
    /\ [][ /\ df' = df
           /\ \A c \in Calls : CallIsolated(c)'
           /\ \A c \in Calls :
                 (pc[c] = "simulate" /\ pc'[c] = "select") => (used_ids'[c] = {} /\ playlist'[c] = << >>)
           /\ \A c, d \in Calls :
                 (c # d /\ (pc'[c] # pc[c] \/ slot'[c] # slot[c] \/ state_path'[c] # state_path[c] \/ P_seq'[c] # P_seq[c]))
                     => (used_ids'[d] = used_ids[d] /\ playlist'[d] = playlist[d]) ]_vars

\* both calls are in the middle of their selection loops, with slots still to
\* fill, and the two of them have picked the same song
C12_Witness ==
    /\ pc[1] = "select" /\ pc[2] = "select"
    /\ slot[1] < Len(state_path[1]) /\ slot[2] < Len(state_path[2])
    /\ used_ids[1] \cap used_ids[2] # {}

\* the system of compute_expected_hitting_times, written from P and the target
HitA(P, t) == [i \in 0 .. 2 |-> [j \in 0 .. 2 |-> Sub(IF i = j THEN One ELSE Zero, P[IF i < t THEN i ELSE i + 1][IF j < t THEN j ELSE j + 1])]]

\* determinant of a 3 x 3 matrix
Det3(X) ==
    Add(Sub(Mul(X[0][0], Sub(Mul(X[1][1], X[2][2]), Mul(X[1][2], X[2][1]))),
            Mul(X[0][1], Sub(Mul(X[1][0], X[2][2]), Mul(X[1][2], X[2][0])))),
        Mul(X[0][2], Sub(Mul(X[1][0], X[2][1]), Mul(X[1][1], X[2][0]))))

RECURSIVE SumOver(_, _)
SumOver(f, S) == IF S = {} THEN Zero ELSE LET j == CHOOSE j \in S : TRUE IN Add(f[j], SumOver(f, S \ {j}))

\* h(i) = 1 + sum over j of P[i][j] * h(j), for every i other than the target
HittingEquations(P, t, h) ==
    \A i \in StateIdx \ {t} : h[i] = Add(One, SumOver([j \in StateIdx |-> Mul(P[i][j], h[j])], StateIdx))

\* x minimises |A x - 1|: A^T A x = A^T 1
LeastSquares(A, x) ==
    \A i \in 0 .. 2 :
        SumOver([k \in 0 .. 2 |-> Mul(A[k][i], SumOver([j \in 0 .. 2 |-> Mul(A[k][j], x[j])], 0 .. 2))], 0 .. 2)
            = SumOver([k \in 0 .. 2 |-> A[k][i]], 0 .. 2)

\* C13: compute_expected_hitting_times(P, t) returns a vector over the N
\* states with h[t] = 0 and the solved entries at their own state indices;
\* when I - P_sub is non-singular they satisfy h(i) = 1 + sum_j P[i][j] h(j)
\* for every i # t, and when it is singular the call still returns a finite
\* vector, a least-squares answer of the system.
C13_HittingTimes ==
    ret.done =>
        LET P == arg.P
            t == arg.target_state_idx
            h == ret.value
            A == HitA(P, t)
        IN  /\ DOMAIN h = StateIdx
            /\ h[t] = Zero
            /\ \A i \in StateIdx : IsFinite(h[i])
            /\ Det3(A) # Zero => HittingEquations(P, t, h)
            /\ Det3(A) = Zero => LeastSquares(A, [i \in 0 .. 2 |-> h[IF i < t THEN i ELSE i + 1]])

\* a call with target 1 on a chain that reaches it from everywhere returned
\* three different positive hitting times
C13_Witness ==
    /\ ret.done
    /\ arg.target_state_idx = 1
    /\ Det3(HitA(arg.P, 1)) # Zero
    /\ Less(One, ret.value[0])
    /\ Less(ret.value[0], ret.value[2])
    /\ Less(ret.value[2], ret.value[3])

UniqueIds(songs_df) == \A r, q \in DOMAIN songs_df : r # q => songs_df[r].id # songs_df[q].id

\* C14: for a catalogue with unique ids in which every state has a song,
\* generate_playlist returns exactly min(catalogue size, total slot count)
\* songs and fills the slots without gaps: after every slot gone through the
\* playlist holds min(slots done, catalogue size) songs, so a slot is skipped
\* only once every song is used, every later slot is skipped too, and the
\* k-th playlist entry is the song chosen for the k-th slot (a song not
\* chosen before, of the slot's state unless every song of it was chosen).
C14_NoGaps ==
    \A c \in Calls :
        (UniqueIds(df) /\ AllStatesPresent(df)) =>
            /\ pc[c] \in {"select", "returned"} =>
                  /\ Len(playlist[c]) = Min(slot[c] - 1, Len(df))
                  /\ \A k \in DOMAIN playlist[c] :
                        /\ \E r \in DOMAIN df : df[r] = playlist[c][k]
                        /\ \A j \in 1 .. k - 1 : playlist[c][j] # playlist[c][k]
                        /\ \/ playlist[c][k].state = StateName(state_path[c][k + 1])
                           \/ \A r \in DOMAIN df :
                                 df[r].state = StateName(state_path[c][k + 1]) =>
                                     \E j \in 1 .. k - 1 : playlist[c][j] = df[r]
            /\ outcome[c] = "returned" =>
                  /\ slot[c] - 1 = TotalSlots(plan[c])
                  /\ Len(playlist[c]) = Min(Len(df), TotalSlots(plan[c]))

\* a call over six slots returned the four songs of the catalogue, the last
\* two slots skipped, one of the songs being a fallback for its slot
C14_Witness ==
    /\ outcome[1] = "returned"
    /\ UniqueIds(df) /\ AllStatesPresent(df)
    /\ TotalSlots(plan[1]) = Len(df) + 2
    /\ Len(playlist[1]) = Len(df)
    /\ \E k \in DOMAIN playlist[1] : playlist[1][k].state # StateName(state_path[1][k + 1])

=============================================================================
